---- MODULE Spec2Model ----
(***************************************************************************)
(* Model of app.py: a sequential driver that reads product source ids,     *)
(* resolves the brand name, fetches the media of every id not yet in the   *)
(* output CSV, extracts the product fields and appends one row per id.     *)
(*                                                                         *)
(* JSON values: an absent key and a null value are both None (dict.get     *)
(* returns None for both); a present value v is Some(v).                   *)
(***************************************************************************)
EXTENDS Integers, Sequences, FiniteSets, TLC

None == <<>>
Some(v) == <<v>>

\* Python truthiness of an Optional[int] and of an Optional[str].
TruthyInt(o) == o # None /\ o[1] # 0
TruthyStr(o) == o # None /\ o[1] # ""

\* Python `a or b` on Optional[int] operands.
OrInt(a, b) == IF TruthyInt(a) THEN a ELSE b

(***************************************************************************)
(* Bounds of the checked inputs.                                           *)
(***************************************************************************)
MaxMedia == 2
MaxInput == 2
MaxRuns == 2

\* Sequences over S of length at most n.
RECURSIVE SeqUpTo(_, _)
SeqUpTo(S, n) ==
    IF n = 0 THEN {<<>>}
    ELSE LET shorter == SeqUpTo(S, n - 1)
         IN  shorter \cup {Append(s, x) : s \in {t \in shorter : Len(t) = n - 1}, x \in S}

(***************************************************************************)
(* Media records as returned by the products media endpoint.               *)
(***************************************************************************)
Ids == {"a", "b"}

Product(id, sid, url, ovs) ==
    [id |-> id, source_id |-> sid, url |-> url, product_overrides |-> ovs]

Override(sid) == Some([source_id |-> sid])

\* Product associations for a target id: one matching by the tag's own
\* source id with no nested product, one matching by the nested product's
\* source id with id and url, one matching by an override with product id 0
\* and no tag product_id, and one that belongs to another product only.
TagOnly(id) == [source_id |-> Some(id), product_id |-> Some(7), product |-> None]

TagFull(id) ==
    [source_id |-> None, product_id |-> None,
     product |-> Some(Product(Some(42), Some(id), Some("https://x/p/42"), None))]

TagOverride(id) ==
    [source_id |-> Some("zz"), product_id |-> None,
     product |-> Some(Product(Some(0), Some("zz"), Some("https://x/p/0"),
                              Some(<<None, Override(Some(id))>>)))]

TagOther ==
    [source_id |-> Some("zz"), product_id |-> Some(9),
     product |-> Some(Product(Some(43), Some("zz"), Some("https://x/p/43"),
                              Some(<<Override(Some("zz"))>>)))]

ProductTags == {TagOnly("a"), TagFull("a"), TagOverride("a"), TagOther}

ImageSizes ==
    { None,
      Some([original |-> Some([url |-> Some("")])]),
      Some([original |-> Some([url |-> Some("u1")])]),
      Some([original |-> Some([url |-> Some("u2")])]) }

\* The "products" of a record: absent, empty, one association, or two
\* different associations in either order.
ProductLists ==
    {None, Some(<<>>)}
    \cup {Some(<<t>>) : t \in ProductTags}
    \cup {Some(<<p[1], p[2]>>) : p \in {q \in ProductTags \X ProductTags : q[1] # q[2]}}

MediaRecords == [image_sizes : ImageSizes, products : ProductLists]

(***************************************************************************)
(* extract_product_info                                                    *)
(***************************************************************************)
\* media.get("image_sizes") or {}, then .get("original") or {}, then .get("url")
OriginalUrl(media) ==
    LET image_sizes == media.image_sizes
        orig == IF image_sizes = None THEN None ELSE image_sizes[1].original
    IN  IF orig = None THEN None ELSE orig[1].url

\* tag.get("product") or {}
EmptyProduct == Product(None, None, None, None)
ProductOf(tag) == IF tag.product = None THEN EmptyProduct ELSE tag.product[1]

\* product.get("product_overrides") or []
OverridesOf(product) ==
    IF product.product_overrides = None THEN <<>> ELSE product.product_overrides[1]

\* (ov or {}).get("source_id")
OverrideSourceId(ov) == IF ov = None THEN None ELSE ov[1].source_id

override_match(product, product_source_id) ==
    \E i \in 1..Len(OverridesOf(product)) :
        OverrideSourceId(OverridesOf(product)[i]) = Some(product_source_id)

TagMatches(tag, product_source_id) ==
    \/ tag.source_id = Some(product_source_id)
    \/ ProductOf(tag).source_id = Some(product_source_id)
    \/ override_match(ProductOf(tag), product_source_id)

\* The assignments made for a matching tag; acc = <<dash_id, product_url>>.
AssignFromTag(tag, acc) ==
    << IF acc[1] = None THEN OrInt(ProductOf(tag).id, tag.product_id) ELSE acc[1],
       IF acc[2] = None THEN ProductOf(tag).url ELSE acc[2] >>

\* The inner loop over media.get("products") or [], left at the first match.
RECURSIVE SearchTags(_, _, _)
SearchTags(tags, acc, product_source_id) ==
    IF tags = <<>> THEN acc
    ELSE IF TagMatches(Head(tags), product_source_id)
         THEN AssignFromTag(Head(tags), acc)
         ELSE SearchTags(Tail(tags), acc, product_source_id)

TagsOf(media) == IF media.products = None THEN <<>> ELSE media.products[1]

\* Mutant: the search is skipped as soon as the id is known.
SkipSearch_IdOnly(acc) == acc[1] # None

\* "once we have product info we can skip searching"
SkipSearch(acc) == acc[1] # None /\ acc[2] # None

\* if orig.get("url"): media_image_urls.append(orig["url"])
CollectImage(urls, media) ==
    IF TruthyStr(OriginalUrl(media)) THEN Append(urls, OriginalUrl(media)[1]) ELSE urls

\* Mutant: the image url is collected after the skip, so the records that
\* follow the match contribute none.
RECURSIVE ExtractLoop_ImageAfterSkip(_, _, _)
ExtractLoop_ImageAfterSkip(media_items, st, product_source_id) ==
    IF media_items = <<>> THEN st
    ELSE LET media == Head(media_items)
             urls == IF SkipSearch(st.acc) THEN st.urls ELSE CollectImage(st.urls, media)
             acc == IF SkipSearch(st.acc) THEN st.acc
                    ELSE SearchTags(TagsOf(media), st.acc, product_source_id)
         IN  ExtractLoop_ImageAfterSkip(Tail(media_items), [acc |-> acc, urls |-> urls],
                                        product_source_id)

\* The outer loop; st = [acc, urls].
RECURSIVE ExtractLoop(_, _, _)
ExtractLoop(media_items, st, product_source_id) ==
    IF media_items = <<>> THEN st
    ELSE LET media == Head(media_items)
             urls == CollectImage(st.urls, media)
             acc == IF SkipSearch(st.acc) THEN st.acc
                    ELSE SearchTags(TagsOf(media), st.acc, product_source_id)
         IN  ExtractLoop(Tail(media_items), [acc |-> acc, urls |-> urls], product_source_id)

extract_product_info(media_items, product_source_id) ==
    LET st == ExtractLoop(media_items, [acc |-> <<None, None>>, urls |-> <<>>], product_source_id)
    IN  [dash_id |-> st.acc[1], product_url |-> st.acc[2],
         media_count |-> Len(media_items), media_image_urls |-> st.urls]

(***************************************************************************)
(* Configuration (lines 10-22)                                             *)
(***************************************************************************)
BRAND_ID == 2005
LIBRARY_BASE_URL == "https://app.dashhudson.com"

\* The values the operator may have left in BEARER_TOKEN.
Tokens == {"", "YOUR_BEARER_TOKEN_HERE", "c81c"}

(***************************************************************************)
(* Responses of /api/self and get_brand_name                               *)
(***************************************************************************)
SelfResponse(error, status_code, json_ok, brands) ==
    [error |-> error, status_code |-> status_code, json_ok |-> json_ok, brands |-> brands]

Brand(name, id) == [name |-> name, id |-> id]

\* brands is the JSON object in iteration order, None when the key is absent.
SelfResponses ==
    { SelfResponse(TRUE, 0, FALSE, None),
      SelfResponse(FALSE, 401, TRUE, Some(<<Brand("acme", Some(BRAND_ID))>>)),
      SelfResponse(FALSE, 200, FALSE, None),
      SelfResponse(FALSE, 200, TRUE, None),
      SelfResponse(FALSE, 200, TRUE, Some(<<Brand("other", Some(1)), Brand("noid", None)>>)),
      SelfResponse(FALSE, 200, TRUE, Some(<<Brand("other", Some(1)), Brand("acme", Some(BRAND_ID))>>)) }

\* for brand_name, brand_obj in brands.items(): if brand_obj.get("id") == brand_id
RECURSIVE FindBrand(_, _)
FindBrand(brands, brand_id) ==
    IF brands = <<>> THEN None
    ELSE IF Head(brands).id = Some(brand_id) THEN Some(Head(brands).name)
         ELSE FindBrand(Tail(brands), brand_id)

\* Mutant: the status code of the response is not looked at.
get_brand_name_AnyStatus(resp, brand_id) ==
    IF resp.error THEN None
    ELSE IF ~resp.json_ok THEN None
    ELSE FindBrand(IF resp.brands = None THEN <<>> ELSE resp.brands[1], brand_id)

\* The returned brand name, or None where the function calls sys.exit(1).
get_brand_name(resp, brand_id) ==
    IF resp.error THEN None
    ELSE IF resp.status_code # 200 THEN None
    ELSE IF ~resp.json_ok THEN None
    ELSE FindBrand(IF resp.brands = None THEN <<>> ELSE resp.brands[1], brand_id)

(***************************************************************************)
(* Responses of the products media endpoint and                            *)
(* fetch_media_for_product_source_id                                       *)
(***************************************************************************)
MediaResponse(error, status_code, json_ok, is_list, data) ==
    [error |-> error, status_code |-> status_code, json_ok |-> json_ok,
     is_list |-> is_list, data |-> data]

Image(url) == Some([original |-> Some([url |-> Some(url)])])

Media(image_sizes, products) == [image_sizes |-> image_sizes, products |-> products]

\* The JSON arrays the endpoint answers with in the driver runs: no media,
\* one media tagged with the product, two media whose matching tag carries
\* product_id 0 and no nested product, two media without any match.
MediaArrays(id) ==
    { <<>>,
      <<Media(Image("u1"), Some(<<TagOther, TagFull(id)>>))>>,
      <<Media(Image("u1"), Some(<<[source_id |-> Some(id), product_id |-> Some(0), product |-> None]>>)),
        Media(Image("u2"), None)>>,
      <<Media(Image("u1"), Some(<<TagOther>>)), Media(Image("u2"), Some(<<>>))>> }

MediaResponses(id) ==
    { MediaResponse(TRUE, 0, FALSE, FALSE, <<>>),
      MediaResponse(FALSE, 500, TRUE, TRUE, <<Media(Image("u1"), Some(<<TagFull(id)>>))>>),
      MediaResponse(FALSE, 200, FALSE, FALSE, <<>>),
      MediaResponse(FALSE, 200, TRUE, FALSE, <<>>) }
    \cup {MediaResponse(FALSE, 200, TRUE, TRUE, d) : d \in MediaArrays(id)}

\* Mutant: the status code of the response is not looked at.
fetch_media_AnyStatus(resp) ==
    IF resp.error THEN <<>>
    ELSE IF ~resp.json_ok THEN <<>>
    ELSE IF resp.is_list THEN resp.data ELSE <<>>

fetch_media_for_product_source_id(resp) ==
    IF resp.error THEN <<>>
    ELSE IF resp.status_code # 200 THEN <<>>
    ELSE IF ~resp.json_ok THEN <<>>
    ELSE IF resp.is_list THEN resp.data ELSE <<>>

(***************************************************************************)
(* build_dash_library_link and the row of main (lines 267-276)             *)
(***************************************************************************)
\* brand_name is a str, dash_id an Optional[int]; `not x` is Python falsiness.
build_dash_library_link(brand_name, dash_id) ==
    IF brand_name = "" \/ ~TruthyInt(dash_id) THEN ""
    ELSE LIBRARY_BASE_URL \o "/" \o brand_name \o "/library/products"
         \o "?d=product%7CproductId%3A" \o ToString(dash_id[1])

\* "; ".join(media_image_urls)
RECURSIVE JoinUrls(_)
JoinUrls(urls) ==
    IF urls = <<>> THEN ""
    ELSE IF Len(urls) = 1 THEN urls[1]
    ELSE urls[1] \o "; " \o JoinUrls(Tail(urls))

\* The row dict, with every value as the csv writer renders it.
BuildRow(id, brand_name, info) ==
    [product_id |-> id,
     dash_id |-> IF info.dash_id # None THEN ToString(info.dash_id[1]) ELSE "",
     dash_library_link |-> build_dash_library_link(brand_name, info.dash_id),
     product_url |-> IF TruthyStr(info.product_url) THEN info.product_url[1] ELSE "",
     media_count |-> ToString(info.media_count),
     media_image_urls |-> JoinUrls(info.media_image_urls)]

(***************************************************************************)
(* The output CSV: a sequence of lines, each a sequence of cells.          *)
(***************************************************************************)
fieldnames ==
    <<"product_id", "dash_id", "dash_library_link", "product_url", "media_count",
      "media_image_urls">>

\* csv.DictWriter.writerow: the values in fieldnames order.
RowLine(row) ==
    <<row.product_id, row.dash_id, row.dash_library_link, row.product_url,
      row.media_count, row.media_image_urls>>

\* csv.DictReader: the first line is the header, the others are the rows;
\* the value of a column a row is too short for is None.
ColumnIndex(header, name) ==
    IF \E k \in 1..Len(header) : header[k] = name
    THEN CHOOSE k \in 1..Len(header) :
             /\ header[k] = name
             /\ \A j \in (k + 1)..Len(header) : header[j] # name
    ELSE 0

load_already_processed_rows(exists, lines) ==
    IF ~exists THEN {}
    ELSE IF lines = <<>> THEN {}
    ELSE IF ColumnIndex(lines[1], "product_id") = 0 THEN {}
    ELSE LET k == ColumnIndex(lines[1], "product_id")
         IN  {IF k <= Len(lines[i]) THEN Some(lines[i][k]) ELSE None : i \in 2..Len(lines)}

\* Mutant: the ids are looked up in an empty set, so none is skipped.
AlreadyProcessed_Never(id, processed) == Some(id) \in (processed \ processed)

\* if product_source_id in processed
AlreadyProcessed(id, processed) == Some(id) \in processed

(***************************************************************************)
(* read_product_source_ids                                                 *)
(***************************************************************************)
\* The cells of the product_source_id column, already stripped.
InputCells == {""} \cup Ids

RECURSIVE NonEmptyCells(_)
NonEmptyCells(cells) ==
    IF cells = <<>> THEN <<>>
    ELSE IF Head(cells) # "" THEN <<Head(cells)>> \o NonEmptyCells(Tail(cells))
         ELSE NonEmptyCells(Tail(cells))

InputFiles ==
    [has_column : {FALSE}, cells : {<<>>}]
    \cup [has_column : {TRUE}, cells : SeqUpTo(InputCells, MaxInput)]

(***************************************************************************)
(* State                                                                   *)
(***************************************************************************)
VARIABLES
    token,               \* BEARER_TOKEN
    input_csv,           \* the file at INPUT_CSV_PATH
    out_exists,          \* os.path.exists(OUTPUT_CSV_PATH)
    out_lines,           \* the lines of the output file that reached the disk
    buf,                 \* lines written to the open file object and not flushed
    status,              \* "idle", "running", "exited" or "killed"
    exit_code,           \* the exit status of the last run that exited, else -1
    pc,                  \* the position of the running script
    brand_name, product_source_ids, processed, idx,
    product_source_id, media_resp, media_items,
    dash_id, product_url, media_count, media_image_urls,
    row, write_header,
    self_resp,           \* the /api/self response of this run, None before the call
    runs,                \* runs started so far
    kills,               \* runs interrupted so far
    start_exists, start_lines,   \* the output file when this run started
    fetched              \* the ids this run has fetched, in order

file == <<out_exists, out_lines, buf>>
locals == <<brand_name, product_source_ids, processed, idx, product_source_id,
            media_resp, media_items, dash_id, product_url, media_count,
            media_image_urls, row, write_header>>
config == <<token, input_csv>>
history == <<self_resp, runs, kills, start_exists, start_lines, fetched>>

vars == <<config, file, status, exit_code, pc, locals, history>>

NoRow == [product_id |-> "", dash_id |-> "", dash_library_link |-> "",
          product_url |-> "", media_count |-> "", media_image_urls |-> ""]

NoResp == MediaResponse(FALSE, 0, FALSE, FALSE, <<>>)

\* The locals before main has assigned them.
FreshLocals ==
    /\ brand_name = ""
    /\ product_source_ids = <<>>
    /\ processed = {}
    /\ idx = 0
    /\ product_source_id = ""
    /\ media_resp = NoResp
    /\ media_items = <<>>
    /\ dash_id = None
    /\ product_url = None
    /\ media_count = 0
    /\ media_image_urls = <<>>
    /\ row = NoRow
    /\ write_header = FALSE

\* The configuration and the input file are any of the bounded ones; the
\* output file does not exist yet.
Init ==
    /\ token \in Tokens
    /\ input_csv \in InputFiles
    /\ out_exists = FALSE
    /\ out_lines = <<>>
    /\ buf = <<>>
    /\ status = "idle"
    /\ exit_code = -1
    /\ pc = "main"
    /\ FreshLocals
    /\ self_resp = None
    /\ runs = 0
    /\ kills = 0
    /\ start_exists = out_exists
    /\ start_lines = out_lines
    /\ fetched = <<>>

(***************************************************************************)
(* main                                                                    *)
(***************************************************************************)
\* The script is started (again) with the same configuration and files.
StartRun ==
    /\ status # "running"
    /\ runs < MaxRuns
    /\ status' = "running"
    /\ exit_code' = -1
    /\ pc' = "check_token"
    /\ brand_name' = ""
    /\ product_source_ids' = <<>>
    /\ processed' = {}
    /\ idx' = 0
    /\ product_source_id' = ""
    /\ media_resp' = NoResp
    /\ media_items' = <<>>
    /\ dash_id' = None
    /\ product_url' = None
    /\ media_count' = 0
    /\ media_image_urls' = <<>>
    /\ row' = NoRow
    /\ write_header' = FALSE
    /\ self_resp' = None
    /\ runs' = runs + 1
    /\ start_exists' = out_exists
    /\ start_lines' = out_lines
    /\ fetched' = <<>>
    /\ UNCHANGED <<config, file, kills>>

\* sys.exit(code), and the exit at the end of main.
Exit(code, at) ==
    /\ status' = "exited"
    /\ exit_code' = code
    /\ pc' = at

\* lines 238-240
CheckToken ==
    /\ status = "running" /\ pc = "check_token"
    /\ IF token = "" \/ token = "YOUR_BEARER_TOKEN_HERE"
       THEN Exit(1, "fatal")
       ELSE /\ pc' = "get_brand_name"
            /\ UNCHANGED <<status, exit_code>>
    /\ UNCHANGED <<config, file, locals, history>>

\* line 244
GetBrandName ==
    /\ status = "running" /\ pc = "get_brand_name"
    /\ \E resp \in SelfResponses :
        /\ self_resp' = Some(resp)
        /\ IF get_brand_name(resp, BRAND_ID) = None
           THEN /\ Exit(1, "fatal")
                /\ UNCHANGED brand_name
           ELSE /\ brand_name' = get_brand_name(resp, BRAND_ID)[1]
                /\ pc' = "read_input"
                /\ UNCHANGED <<status, exit_code>>
    /\ UNCHANGED <<config, file, product_source_ids, processed, idx, product_source_id,
                   media_resp, media_items, dash_id, product_url, media_count,
                   media_image_urls, row, write_header,
                   runs, kills, start_exists, start_lines, fetched>>

\* line 248; the ValueError of line 164 is not caught and ends the run with status 1
ReadInput ==
    /\ status = "running" /\ pc = "read_input"
    /\ IF ~input_csv.has_column
       THEN /\ Exit(1, "fatal")
            /\ UNCHANGED product_source_ids
       ELSE /\ product_source_ids' = NonEmptyCells(input_csv.cells)
            /\ pc' = "load_processed"
            /\ UNCHANGED <<status, exit_code>>
    /\ UNCHANGED <<config, file, brand_name, processed, idx, product_source_id,
                   media_resp, media_items, dash_id, product_url, media_count,
                   media_image_urls, row, write_header, history>>

\* line 251
LoadProcessed ==
    /\ status = "running" /\ pc = "load_processed"
    /\ processed' = load_already_processed_rows(out_exists, out_lines)
    /\ idx' = 1
    /\ pc' = "loop"
    /\ UNCHANGED <<config, file, status, exit_code, brand_name, product_source_ids,
                   product_source_id, media_resp, media_items, dash_id, product_url,
                   media_count, media_image_urls, row, write_header, history>>

\* lines 255-258: the next id is in the resume set
LoopSkip ==
    /\ status = "running" /\ pc = "loop"
    /\ idx <= Len(product_source_ids)
    /\ AlreadyProcessed(product_source_ids[idx], processed)
    /\ idx' = idx + 1
    /\ UNCHANGED <<config, file, status, exit_code, pc, brand_name, product_source_ids,
                   processed, product_source_id, media_resp, media_items, dash_id,
                   product_url, media_count, media_image_urls, row, write_header, history>>

\* lines 255-261: the next id is fetched
Fetch ==
    /\ status = "running" /\ pc = "loop"
    /\ idx <= Len(product_source_ids)
    /\ ~AlreadyProcessed(product_source_ids[idx], processed)
    /\ product_source_id' = product_source_ids[idx]
    /\ \E resp \in MediaResponses(product_source_ids[idx]) :
        /\ media_resp' = resp
        /\ media_items' = fetch_media_for_product_source_id(resp)
    /\ fetched' = Append(fetched, product_source_ids[idx])
    /\ pc' = "extract"
    /\ UNCHANGED <<config, file, status, exit_code, brand_name, product_source_ids,
                   processed, idx, dash_id, product_url, media_count, media_image_urls,
                   row, write_header, self_resp, runs, kills, start_exists, start_lines>>

\* lines 263-276
BuildRowStep ==
    /\ status = "running" /\ pc = "extract"
    /\ LET info == extract_product_info(media_items, product_source_id)
       IN  /\ dash_id' = info.dash_id
           /\ product_url' = info.product_url
           /\ media_count' = info.media_count
           /\ media_image_urls' = info.media_image_urls
           /\ row' = BuildRow(product_source_id, brand_name, info)
    /\ pc' = "append_row"
    /\ UNCHANGED <<config, file, status, exit_code, brand_name, product_source_ids,
                   processed, idx, product_source_id, media_resp, media_items,
                   write_header, history>>

\* append_row, lines 210-213: open(path, "a") creates the file
AppendOpen ==
    /\ status = "running" /\ pc = "append_row"
    /\ write_header' = ~out_exists
    /\ out_exists' = TRUE
    /\ buf' = <<>>
    /\ pc' = "writeheader"
    /\ UNCHANGED <<config, out_lines, status, exit_code, brand_name, product_source_ids,
                   processed, idx, product_source_id, media_resp, media_items, dash_id,
                   product_url, media_count, media_image_urls, row, history>>

\* lines 216-217
AppendWriteHeader ==
    /\ status = "running" /\ pc = "writeheader"
    /\ buf' = IF write_header THEN Append(buf, fieldnames) ELSE buf
    /\ pc' = "writerow"
    /\ UNCHANGED <<config, out_exists, out_lines, status, exit_code, locals, history>>

\* line 219
AppendWriteRow ==
    /\ status = "running" /\ pc = "writerow"
    /\ buf' = Append(buf, RowLine(row))
    /\ pc' = "flush"
    /\ UNCHANGED <<config, out_exists, out_lines, status, exit_code, locals, history>>

\* line 220 and the close at the end of the with block
AppendFlush ==
    /\ status = "running" /\ pc = "flush"
    /\ out_lines' = out_lines \o buf
    /\ buf' = <<>>
    /\ pc' = "sleep"
    /\ UNCHANGED <<config, out_exists, status, exit_code, locals, history>>

\* line 279
Sleep ==
    /\ status = "running" /\ pc = "sleep"
    /\ idx' = idx + 1
    /\ pc' = "loop"
    /\ UNCHANGED <<config, file, status, exit_code, brand_name, product_source_ids,
                   processed, product_source_id, media_resp, media_items, dash_id,
                   product_url, media_count, media_image_urls, row, write_header, history>>

\* line 281 and the return of main
Done ==
    /\ status = "running" /\ pc = "loop"
    /\ idx > Len(product_source_ids)
    /\ Exit(0, "done")
    /\ UNCHANGED <<config, file, locals, history>>

\* The run is interrupted. While the output file is open, the lines written
\* and not flushed reach the disk when the interrupt unwinds the with block
\* (KeyboardInterrupt) and are lost when the process is killed outright.
FileOpen == pc \in {"writeheader", "writerow", "flush"}

Kill ==
    /\ status = "running"
    /\ \E unwinds \in BOOLEAN :
        out_lines' = IF FileOpen /\ unwinds THEN out_lines \o buf ELSE out_lines
    /\ buf' = <<>>
    /\ status' = "killed"
    /\ kills' = kills + 1
    /\ UNCHANGED <<config, out_exists, exit_code, pc, locals, self_resp, runs,
                   start_exists, start_lines, fetched>>

Step ==
    \/ CheckToken
    \/ GetBrandName
    \/ ReadInput
    \/ LoadProcessed
    \/ LoopSkip
    \/ Fetch
    \/ BuildRowStep
    \/ AppendOpen
    \/ AppendWriteHeader
    \/ AppendWriteRow
    \/ AppendFlush
    \/ Sleep
    \/ Done

Next ==
    \/ StartRun
    \/ Step
    \/ Kill

Spec == Init /\ [][Next]_vars

\* The script runs on when it is not interrupted: every call returns (the
\* requests carry a timeout) and the loop is over a finite list.
SpecFair == Spec /\ WF_vars(Step)

(***************************************************************************)
(* extract_product_info called with every bounded media list, target "a". *)
(***************************************************************************)
InitExtract ==
    /\ token = "c81c"
    /\ input_csv = [has_column |-> TRUE, cells |-> <<>>]
    /\ out_exists = FALSE /\ out_lines = <<>> /\ buf = <<>>
    /\ status = "running"
    /\ exit_code = -1
    /\ pc = "extract_input"
    /\ brand_name = ""
    /\ product_source_ids = <<>>
    /\ processed = {}
    /\ idx = 0
    /\ product_source_id = "a"
    /\ media_resp = NoResp
    /\ media_items = <<>>
    /\ dash_id = None
    /\ product_url = None
    /\ media_count = 0
    /\ media_image_urls = <<>>
    /\ row = NoRow
    /\ write_header = FALSE
    /\ self_resp = None
    /\ runs = 0 /\ kills = 0
    /\ start_exists = FALSE /\ start_lines = <<>>
    /\ fetched = <<>>

\* One more record of the media list the extractor is called with.
ExtractInput ==
    /\ pc = "extract_input"
    /\ Len(media_items) < MaxMedia
    /\ \E media \in MediaRecords : media_items' = Append(media_items, media)
    /\ UNCHANGED <<config, file, status, exit_code, pc, brand_name, product_source_ids,
                   processed, idx, product_source_id, media_resp, dash_id, product_url,
                   media_count, media_image_urls, row, write_header, history>>

ExtractCall ==
    /\ pc = "extract_input"
    /\ LET r == extract_product_info(media_items, product_source_id)
       IN  /\ dash_id' = r.dash_id
           /\ product_url' = r.product_url
           /\ media_count' = r.media_count
           /\ media_image_urls' = r.media_image_urls
    /\ pc' = "extract_returned"
    /\ UNCHANGED <<config, file, status, exit_code, brand_name, product_source_ids,
                   processed, idx, product_source_id, media_resp, media_items, row,
                   write_header, history>>

NextExtract ==
    \/ ExtractInput
    \/ ExtractCall

SpecExtract == InitExtract /\ [][NextExtract]_vars

(***************************************************************************)
(* The report as a CSV reader sees it: the first line names the columns.   *)
(***************************************************************************)
ReportColumn(lines, name) ==
    IF lines = <<>> THEN 0 ELSE ColumnIndex(lines[1], name)

\* The numbers of the rows whose product_id cell is id.
ReportRowsOf(lines, id) ==
    LET k == ReportColumn(lines, "product_id")
    IN  IF k = 0 THEN {}
        ELSE {i \in 2..Len(lines) : k <= Len(lines[i]) /\ lines[i][k] = id}

ReportIds(lines) == {id \in Ids : ReportRowsOf(lines, id) # {}}

Distinct(seq) == \A i, j \in 1..Len(seq) : i # j => seq[i] # seq[j]

InputIds == NonEmptyCells(input_csv.cells)

RECURSIVE Without(_, _)
Without(seq, S) ==
    IF seq = <<>> THEN <<>>
    ELSE IF Head(seq) \in S THEN Without(Tail(seq), S)
         ELSE <<Head(seq)>> \o Without(Tail(seq), S)

(***************************************************************************)
(* C1: after any sequence of runs against the same output file, no         *)
(* identifier appears in the product_id column of two rows of the file.    *)
(***************************************************************************)
C1_AtMostOneRowPerId ==
    \A id \in Ids : Cardinality(ReportRowsOf(out_lines, id)) <= 1

(***************************************************************************)
(* C2: the input ids are pairwise distinct and the output file is absent   *)
(* at first; a run is interrupted and the next run completes: the file     *)
(* then has exactly one row for every input id, and the second run has     *)
(* fetched exactly the ids that had no row when it started.                *)
(***************************************************************************)
C2_InterruptedThenRerun ==
    /\ Distinct(InputIds)
    /\ runs = 2 /\ kills = 1
    /\ status = "exited" /\ pc = "done"

C2_ResumeAfterInterrupt ==
    C2_InterruptedThenRerun =>
        /\ \A i \in 1..Len(InputIds) :
               Cardinality(ReportRowsOf(out_lines, InputIds[i])) = 1
        /\ fetched = Without(InputIds, ReportIds(start_lines))

(***************************************************************************)
(* C3: when every input id is in the resume set computed from the output   *)
(* file, the run appends nothing and leaves the file as it found it.       *)
(***************************************************************************)
C3_AllResumed ==
    /\ pc \in {"loop", "extract", "append_row", "writeheader", "writerow", "flush",
               "sleep", "done"}
    /\ \A i \in 1..Len(product_source_ids) : Some(product_source_ids[i]) \in processed

C3_RerunIdempotent ==
    C3_AllResumed =>
        /\ out_exists = start_exists
        /\ out_lines = start_lines
        /\ buf = <<>>
        /\ fetched = <<>>

C3_Witness ==
    /\ C3_AllResumed
    /\ pc = "done" /\ status = "exited"
    /\ Len(product_source_ids) = 2
    /\ Len(out_lines) = 3

(***************************************************************************)
(* C4: a lookup that ends in a transport error, a non-success status, an   *)
(* unparseable body or a body that is no array yields the row of the id    *)
(* with media_count 0 and the other derived cells empty, the row is        *)
(* appended, and the run ends only after the whole input list.             *)
(***************************************************************************)
LookupFailed(resp) ==
    resp.error \/ resp.status_code # 200 \/ ~resp.json_ok \/ ~resp.is_list

ZeroRow(id) ==
    [product_id |-> id, dash_id |-> "", dash_library_link |-> "", product_url |-> "",
     media_count |-> "0", media_image_urls |-> ""]

C4_FailedLookupKeepsGoing ==
    /\ (pc \in {"append_row", "writeheader", "writerow", "flush", "sleep"}
        /\ LookupFailed(media_resp))
          => row = ZeroRow(product_source_id)
    /\ (pc = "sleep" /\ LookupFailed(media_resp))
          => /\ out_lines # <<>>
             /\ out_lines[Len(out_lines)] =
                    <<product_source_id, "", "", "", "0", "">>
    /\ (status = "exited" /\ fetched # <<>>)
          => /\ exit_code = 0
             /\ idx = Len(product_source_ids) + 1
             /\ \A i \in 1..Len(product_source_ids) :
                    \/ Some(product_source_ids[i]) \in processed
                    \/ \E j \in 1..Len(fetched) : fetched[j] = product_source_ids[i]

C4_Witness ==
    /\ status = "exited" /\ pc = "done"
    /\ Len(fetched) = 2
    /\ media_resp.status_code = 500
    /\ Len(out_lines) = 3
    /\ out_lines[2][5] = "0"
    /\ out_lines[3][5] = "0"

(***************************************************************************)
(* C5: a run exits with a non-zero status exactly when the token is        *)
(* missing or the placeholder, the account resolution fails, or the input  *)
(* lacks the product_source_id column; such a run has fetched nothing and  *)
(* appended nothing; a run whose loop has started reaches the end of main  *)
(* with status zero unless it is interrupted.                              *)
(***************************************************************************)
BadToken == token = "" \/ token = "YOUR_BEARER_TOKEN_HERE"

AccountResolutionFails(resp) ==
    \/ resp.error
    \/ resp.status_code # 200
    \/ ~resp.json_ok
    \/ resp.brands = None
    \/ \A i \in 1..Len(resp.brands[1]) : resp.brands[1][i].id # Some(BRAND_ID)

FatalStartup ==
    \/ BadToken
    \/ self_resp # None /\ AccountResolutionFails(self_resp[1])
    \/ ~input_csv.has_column

C5_ExitStatus ==
    /\ status = "exited" =>
        /\ exit_code \in {0, 1}
        /\ exit_code # 0 <=> FatalStartup
        /\ exit_code # 0 =>
            /\ pc = "fatal"
            /\ idx = 0
            /\ fetched = <<>>
            /\ out_exists = start_exists /\ out_lines = start_lines /\ buf = <<>>
        /\ exit_code = 0 => pc = "done"
    /\ (status = "running" /\ idx >= 1) => ~FatalStartup

C8_LinkIffDashId ==
    pc \in {"append_row", "writeheader", "writerow", "flush", "sleep"} =>
        /\ (row.dash_library_link # "" <=> row.dash_id # "")
        /\ row.dash_id # "" =>
               row.dash_library_link =
                   "https://app.dashhudson.com/" \o brand_name
                   \o "/library/products?d=product%7CproductId%3A" \o row.dash_id

(***************************************************************************)
(* C10: starting from an absent output file, whatever runs complete or are *)
(* interrupted, the first line of the file is the header and every other   *)
(* line is a data row of the six columns in the fixed order.               *)
(***************************************************************************)
IsDataLine(line, id) ==
    /\ Len(line) = 6
    /\ line # fieldnames
    /\ line[1] = id

C10_OneHeaderFirst ==
    out_lines # <<>> =>
        /\ out_lines[1] = fieldnames
        /\ \A i \in 2..Len(out_lines) : \E id \in Ids : IsDataLine(out_lines[i], id)

(***************************************************************************)
(* The matching rule as the specification words it.                        *)
(***************************************************************************)
AssociationsOf(media) == IF media.products = None THEN <<>> ELSE media.products[1]

AssociationMatches(tag, target) ==
    \/ tag.source_id = Some(target)
    \/ /\ tag.product # None
       /\ \/ tag.product[1].source_id = Some(target)
          \/ /\ tag.product[1].product_overrides # None
             /\ \E k \in 1..Len(tag.product[1].product_overrides[1]) :
                    LET ov == tag.product[1].product_overrides[1][k]
                    IN  ov # None /\ ov[1].source_id = Some(target)

RecordMatches(media, target) ==
    \E j \in 1..Len(AssociationsOf(media)) : AssociationMatches(AssociationsOf(media)[j], target)

MatchingRecords(items, target) == {i \in 1..Len(items) : RecordMatches(items[i], target)}

FirstMatchingAssociation(media, target) ==
    LET tags == AssociationsOf(media)
        j == CHOOSE j \in 1..Len(tags) :
                 /\ AssociationMatches(tags[j], target)
                 /\ \A h \in 1..(j - 1) : ~AssociationMatches(tags[h], target)
    IN  tags[j]

\* The nested product's id, the association's product_id when that is absent.
InternalIdOf(tag) ==
    IF tag.product # None /\ tag.product[1].id # None THEN tag.product[1].id
    ELSE tag.product_id

CanonicalUrlOf(tag) == IF tag.product = None THEN None ELSE tag.product[1].url

(***************************************************************************)
(* C6: with no matching association the internal id and the canonical url  *)
(* are absent; with exactly one record that has a matching association     *)
(* they are the id (the association's product_id when the nested product   *)
(* has no id) and the url of that record's first matching association.     *)
(***************************************************************************)
C6_MatchResult ==
    pc = "extract_returned" =>
        LET matching == MatchingRecords(media_items, product_source_id)
        IN  /\ matching = {} => (dash_id = None /\ product_url = None)
            /\ Cardinality(matching) = 1 =>
                   LET tag == FirstMatchingAssociation(
                                  media_items[CHOOSE i \in matching : TRUE], product_source_id)
                   IN  /\ dash_id = InternalIdOf(tag)
                       /\ product_url = CanonicalUrlOf(tag)

(***************************************************************************)
(* C7: the media count is the number of records, and the image urls are    *)
(* the image_sizes.original.url of the records that carry one, in list     *)
(* order, whatever the records match.                                      *)
(***************************************************************************)
\* A record carries an original url when the value is there and not empty.
CarriedUrl(media) ==
    IF /\ media.image_sizes # None
       /\ media.image_sizes[1].original # None
       /\ media.image_sizes[1].original[1].url # None
       /\ media.image_sizes[1].original[1].url[1] # ""
    THEN <<media.image_sizes[1].original[1].url[1]>>
    ELSE <<>>

RECURSIVE CarriedUrls(_)
CarriedUrls(items) ==
    IF items = <<>> THEN <<>> ELSE CarriedUrl(Head(items)) \o CarriedUrls(Tail(items))

C7_CountAndImages ==
    pc = "extract_returned" =>
        /\ media_count = Len(media_items)
        /\ media_image_urls = CarriedUrls(media_items)

\* The first record matches and sets both fields, the second carries an image.
C7_Witness ==
    /\ pc = "extract_returned"
    /\ Len(media_items) = 2
    /\ MatchingRecords(media_items, product_source_id) = {1}
    /\ dash_id = Some(42)
    /\ product_url # None
    /\ CarriedUrl(media_items[1]) = <<>>
    /\ media_image_urls = <<"u2">>
    /\ media_count = 2

(***************************************************************************)
(* C9: the result equals that of an extractor that runs the match search   *)
(* on every record and fills only a field that is still absent.            *)
(***************************************************************************)
RECURSIVE FullScan(_, _, _)
FullScan(items, st, target) ==
    IF items = <<>> THEN st
    ELSE LET media == Head(items)
             tags == AssociationsOf(media)
             hit == RecordMatches(media, target)
             tag == FirstMatchingAssociation(media, target)
             id == IF hit /\ st.dash_id = None
                   THEN (IF tag.product # None /\ TruthyInt(tag.product[1].id)
                         THEN tag.product[1].id ELSE tag.product_id)
                   ELSE st.dash_id
             url == IF hit /\ st.product_url = None THEN CanonicalUrlOf(tag)
                    ELSE st.product_url
         IN  FullScan(Tail(items),
                      [dash_id |-> id, product_url |-> url,
                       media_image_urls |-> st.media_image_urls \o CarriedUrl(media)],
                      target)

FullScanResult(items, target) ==
    FullScan(items, [dash_id |-> None, product_url |-> None, media_image_urls |-> <<>>], target)

C9_EarlyExitUnobservable ==
    pc = "extract_returned" =>
        LET full == FullScanResult(media_items, product_source_id)
        IN  /\ dash_id = full.dash_id
            /\ product_url = full.product_url
            /\ media_image_urls = full.media_image_urls
            /\ media_count = Len(media_items)

\* The search is skipped on a second record that has a matching association.
C9_Witness ==
    /\ pc = "extract_returned"
    /\ Len(media_items) = 2
    /\ MatchingRecords(media_items, product_source_id) = {1, 2}
    /\ FirstMatchingAssociation(media_items[1], product_source_id) = TagFull("a")
    /\ FirstMatchingAssociation(media_items[2], product_source_id) = TagOnly("a")
    /\ dash_id = Some(42)

====
